---- MODULE Spec2Model ----
(***************************************************************************)
(* Texture layout computation of the ilo driver (tex_layout_* functions    *)
(* in src/vkconfig_core/setting_meta.h, lines 172-1217).                   *)
(*                                                                         *)
(* One behaviour is one layout computation: a resource template, a device  *)
(* generation and a debug mask are drawn in Init, and the stages of        *)
(* tex_layout_init, the 2D/3D packer, tex_layout_calculate_bo_size and     *)
(* tex_layout_calculate_hiz_size run one action each.  A failed assert()   *)
(* ends the computation in pc = "abort".  SpecRerun adds a second          *)
(* computation with the same arguments on the memory the first one left.   *)
(***************************************************************************)
EXTENDS Integers, Sequences, FiniteSets, TLC

VARIABLES
    templ,      \* const struct pipe_resource *templ
    gen,        \* layout->dev->gen
    nohiz,      \* ilo_debug & ILO_DEBUG_NOHIZ
    has_slices, \* the slices argument of tex_layout_init is non-NULL
    layout,     \* struct tex_layout
    slices,     \* caller's slice storage: (level, index) -> (x, y), cells written
    pc,         \* position in the computation
    ret,        \* value returned by the last bool-returning function
    failed,     \* the assert() that failed, "none" otherwise
    iters,      \* bodies of the sizing loop run so far
    last,       \* outcome of the previous computation on the same memory
    runs        \* computations started on this layout memory

vars == <<templ, gen, nohiz, has_slices, layout, slices, pc, ret, failed, iters, last, runs>>

inputs == <<templ, gen, nohiz, has_slices>>

-----------------------------------------------------------------------------
(* Bounds of the model *)

MaxLastLevel == 3

MaxArraySize == 2

(* level records kept per layout: one more than the last level, since the
   level calculator may add a synthetic level 1 *)
NumLevels == MaxLastLevel + 2

-----------------------------------------------------------------------------
(* Device generations, ILO_GEN(6), ILO_GEN(7), ILO_GEN(7.5) *)

ILO_GEN_6 == 600

ILO_GEN_7 == 700

ILO_GEN_7_5 == 750

Gens == {ILO_GEN_6, ILO_GEN_7, ILO_GEN_7_5}

(* enum intel_tiling_mode; a bitmask of modes is the set of its modes *)
Tilings == {"NONE", "X", "Y"}

-----------------------------------------------------------------------------
(* Format descriptions: block width, block height, block size in bytes,
   compressed, depth channel, stencil channel *)

Fmt(bw, bh, bs, c, d, s) ==
    [bw |-> bw, bh |-> bh, bs |-> bs, compressed |-> c, depth |-> d, stencil |-> s]

FormatTable ==
    [f \in {"R8G8B8A8_UNORM", "R8G8B8X8_UNORM", "R32G32B32_FLOAT",
            "R32G32B32A32_FLOAT", "ETC1_RGB8", "DXT1_RGB", "FXT1_RGB",
            "Z16_UNORM", "Z24X8_UNORM", "Z32_FLOAT", "Z24_UNORM_S8_UINT",
            "Z32_FLOAT_S8X24_UINT", "S8_UINT", "UYVY"} |->
        CASE f = "R8G8B8A8_UNORM"       -> Fmt(1, 1, 4, FALSE, FALSE, FALSE)
          [] f = "R8G8B8X8_UNORM"       -> Fmt(1, 1, 4, FALSE, FALSE, FALSE)
          [] f = "R32G32B32_FLOAT"      -> Fmt(1, 1, 12, FALSE, FALSE, FALSE)
          [] f = "R32G32B32A32_FLOAT"   -> Fmt(1, 1, 16, FALSE, FALSE, FALSE)
          [] f = "ETC1_RGB8"            -> Fmt(4, 4, 8, TRUE, FALSE, FALSE)
          [] f = "DXT1_RGB"             -> Fmt(4, 4, 8, TRUE, FALSE, FALSE)
          [] f = "FXT1_RGB"             -> Fmt(8, 4, 16, TRUE, FALSE, FALSE)
          [] f = "Z16_UNORM"            -> Fmt(1, 1, 2, FALSE, TRUE, FALSE)
          [] f = "Z24X8_UNORM"          -> Fmt(1, 1, 4, FALSE, TRUE, FALSE)
          [] f = "Z32_FLOAT"            -> Fmt(1, 1, 4, FALSE, TRUE, FALSE)
          [] f = "Z24_UNORM_S8_UINT"    -> Fmt(1, 1, 4, FALSE, TRUE, TRUE)
          [] f = "Z32_FLOAT_S8X24_UINT" -> Fmt(1, 1, 8, FALSE, TRUE, TRUE)
          [] f = "S8_UINT"              -> Fmt(1, 1, 1, FALSE, FALSE, TRUE)
          [] f = "UYVY"                 -> Fmt(2, 1, 4, FALSE, FALSE, FALSE)]

util_format_get_blockwidth(f) == FormatTable[f].bw

util_format_get_blockheight(f) == FormatTable[f].bh

util_format_get_blocksize(f) == FormatTable[f].bs

util_format_is_compressed(f) == FormatTable[f].compressed

util_format_has_depth(f) == FormatTable[f].depth

util_format_has_stencil(f) == FormatTable[f].stencil

-----------------------------------------------------------------------------
(* Arithmetic helpers *)

MAX2(a, b) == IF a > b THEN a ELSE b

MIN2(a, b) == IF a < b THEN a ELSE b

(* align(v, a): v rounded up to a multiple of a, a a power of two *)
align(v, a) == ((v + a - 1) \div a) * a

(* u_minify(v, lv) = MAX2(1, v >> lv) *)
u_minify(v, lv) == MAX2(1, v \div (2 ^ lv))

(* util_is_power_of_two(v): (v & (v - 1)) == 0 *)
util_is_power_of_two(v) == v \in {0, 1, 2, 4, 8, 16, 32, 64, 128, 256, 512}

-----------------------------------------------------------------------------
(* struct tex_layout *)

LevelIdx == 0 .. (NumLevels - 1)

(* the layout after the memset() that clears it *)
ZeroLayout ==
    [has_depth |-> FALSE, has_stencil |-> FALSE, hiz |-> FALSE,
     separate_stencil |-> FALSE,
     format |-> "NONE", block_width |-> 0, block_height |-> 0, block_size |-> 0,
     compressed |-> FALSE,
     tiling |-> "NONE", valid_tilings |-> {},
     array_spacing_full |-> FALSE, interleaved |-> FALSE,
     levels |-> [lv \in LevelIdx |-> [w |-> 0, h |-> 0, d |-> 0, slices |-> FALSE]],
     align_i |-> 0, align_j |-> 0, qpitch |-> 0,
     width |-> 0, height |-> 0,
     bo_stride |-> 0, bo_height |-> 0, hiz_stride |-> 0, hiz_height |-> 0]

(* memory that was never cleared: every field holds something *)
DirtyLayout ==
    [has_depth |-> TRUE, has_stencil |-> TRUE, hiz |-> TRUE,
     separate_stencil |-> TRUE,
     format |-> "S8_UINT", block_width |-> 4, block_height |-> 4, block_size |-> 16,
     compressed |-> TRUE,
     tiling |-> "X", valid_tilings |-> {"X"},
     array_spacing_full |-> TRUE, interleaved |-> TRUE,
     levels |-> [lv \in LevelIdx |-> [w |-> 24, h |-> 24, d |-> 3, slices |-> TRUE]],
     align_i |-> 8, align_j |-> 8, qpitch |-> 40,
     width |-> 72, height |-> 136,
     bo_stride |-> 512, bo_height |-> 136, hiz_stride |-> 128, hiz_height |-> 32]

EmptySlices == [c \in {} |-> <<0, 0>>]

(* mutant: the layout is not cleared *)
tex_layout_memset_skip(l) == l

tex_layout_memset(l) == ZeroLayout

NoOutcome == [layout |-> ZeroLayout, slices |-> EmptySlices, ret |-> TRUE, pc |-> "none"]

-----------------------------------------------------------------------------
(* tex_layout_init_hiz *)

(* mutant: only the LOD restriction of the PRM is applied *)
hiz_gen6_unsupported_lod == gen = ILO_GEN_6 /\ templ.last_level > 0

(* GEN6: HiZ requires the texture to be non-mipmapped and non-array *)
hiz_gen6_unsupported ==
    gen = ILO_GEN_6 /\ (templ.last_level > 0 \/ templ.array_size > 1 \/ templ.depth0 > 1)

tex_layout_init_hiz(l) ==
    LET hd == util_format_has_depth(templ.format)
        hs == util_format_has_stencil(templ.format)
        l1 == [l EXCEPT !.has_depth = hd, !.has_stencil = hs]
        h1 == ~templ.staging
        h2 == IF hiz_gen6_unsupported THEN FALSE ELSE h1
        h3 == IF nohiz THEN FALSE ELSE h2
        sep == IF gen >= ILO_GEN_7 THEN TRUE ELSE h3
    IN  IF ~hd THEN l1
        ELSE IF ~hs THEN [l1 EXCEPT !.hiz = h3]
        ELSE [l1 EXCEPT !.hiz = h3, !.separate_stencil = sep,
                        !.has_stencil = IF sep THEN FALSE ELSE hs]

(* tex_layout_init_format *)

resolved_format(l) ==
    CASE templ.format = "ETC1_RGB8" -> "R8G8B8X8_UNORM"
      [] templ.format = "Z24_UNORM_S8_UINT" ->
            IF l.separate_stencil THEN "Z24X8_UNORM" ELSE templ.format
      [] templ.format = "Z32_FLOAT_S8X24_UINT" ->
            IF l.separate_stencil THEN "Z32_FLOAT" ELSE templ.format
      [] OTHER -> templ.format

tex_layout_init_format(l) ==
    LET format == resolved_format(l)
    IN  [l EXCEPT !.format = format,
                  !.block_width = util_format_get_blockwidth(format),
                  !.block_height = util_format_get_blockheight(format),
                  !.block_size = util_format_get_blocksize(format),
                  !.compressed = util_format_is_compressed(format)]

-----------------------------------------------------------------------------
(* tex_layout_init_tiling *)

(* the mask of tiling modes the bindings and the format allow *)
(* the mask that keeps Y for a render target of 12 bytes per pixel *)
tiling_mask_keep_y(l) ==
    LET v0 == Tilings
        v1 == IF "SCANOUT" \in templ.bind THEN v0 \cap {"X"} ELSE v0
        v2 == IF templ.bind \cap {"CURSOR", "LINEAR"} # {} THEN v1 \cap {"NONE"} ELSE v1
        v3 == IF "MCS" \in templ.bind THEN v2 \cap {"Y"} ELSE v2
        v4 == IF "DEPTH_STENCIL" \in templ.bind
              THEN (IF l.format = "S8_UINT" THEN v3 \cap {"NONE"} ELSE v3 \cap {"Y"})
              ELSE v3
        v5 == IF "RENDER_TARGET" \in templ.bind /\ l.block_size = 16
              THEN v4 \ {"Y"} ELSE v4
    IN  v5

tiling_mask(l) ==
    LET v0 == Tilings
        v1 == IF "SCANOUT" \in templ.bind THEN v0 \cap {"X"} ELSE v0
        v2 == IF templ.bind \cap {"CURSOR", "LINEAR"} # {} THEN v1 \cap {"NONE"} ELSE v1
        v3 == IF "MCS" \in templ.bind THEN v2 \cap {"Y"} ELSE v2
        v4 == IF "DEPTH_STENCIL" \in templ.bind
              THEN (IF l.format = "S8_UINT" THEN v3 \cap {"NONE"} ELSE v3 \cap {"Y"})
              ELSE v3
        v5 == IF "RENDER_TARGET" \in templ.bind /\ l.block_size = 16
              THEN v4 \ {"Y"} ELSE v4
        v6 == IF "RENDER_TARGET" \in templ.bind /\ gen >= ILO_GEN_7 /\ l.block_size = 12
              THEN v5 \ {"Y"} ELSE v5
    IN  v6

(* mutant: the heuristics drop a mode without looking at what is left *)
tiling_heuristics_unguarded(valid) ==
    IF templ.bind \cap {"RENDER_TARGET", "SAMPLER_VIEW"} # {}
    THEN LET a == IF templ.width0 < 64 THEN valid \ {"X"} ELSE valid
         IN  IF (templ.width0 < 32 \/ templ.height0 < 16)
                /\ (templ.width0 < 16 \/ templ.height0 < 32)
             THEN a \ {"Y"} ELSE a
    ELSE valid \cap {"NONE"}

(* the heuristics dropping Y only when width and height are both below 32 *)
tiling_heuristics_both(valid) ==
    IF templ.bind \cap {"RENDER_TARGET", "SAMPLER_VIEW"} # {}
    THEN LET a == IF templ.width0 < 64 /\ (valid \ {"X"}) # {}
                  THEN valid \ {"X"} ELSE valid
         IN  IF templ.width0 < 32 /\ templ.height0 < 32 /\ (a \ {"Y"}) # {}
             THEN a \ {"Y"} ELSE a
    ELSE IF "NONE" \in valid THEN valid \cap {"NONE"} ELSE valid

(* the minimum width/height heuristics and the forcing of linear *)
tiling_heuristics(valid) ==
    IF templ.bind \cap {"RENDER_TARGET", "SAMPLER_VIEW"} # {}
    THEN LET a == IF templ.width0 < 64 /\ (valid \ {"X"}) # {}
                  THEN valid \ {"X"} ELSE valid
         IN  IF (templ.width0 < 32 \/ templ.height0 < 16)
                /\ (templ.width0 < 16 \/ templ.height0 < 32)
                /\ (a \ {"Y"}) # {}
             THEN a \ {"Y"} ELSE a
    ELSE IF "NONE" \in valid THEN valid \cap {"NONE"} ELSE valid

(* mutant: X is preferred over Y *)
tiling_prefer_x(valid) ==
    IF "X" \in valid THEN "X"
    ELSE IF "Y" \in valid THEN "Y"
    ELSE "NONE"

(* prefer tiled over linear *)
tiling_prefer(valid) ==
    IF "Y" \in valid THEN "Y"
    ELSE IF "X" \in valid THEN "X"
    ELSE "NONE"

tex_layout_init_tiling(l) ==
    LET valid_tilings == tiling_mask(l)
    IN  [l EXCEPT !.valid_tilings = valid_tilings,
                  !.tiling = tiling_prefer(tiling_heuristics(valid_tilings))]

-----------------------------------------------------------------------------
(* tex_layout_init_spacing *)

spacing_assert_ok(l) ==
    (gen >= ILO_GEN_7 /\ ~(l.has_depth \/ l.has_stencil) /\ templ.nr_samples > 1)
        => templ.last_level = 0

tex_layout_init_spacing(l) ==
    IF gen >= ILO_GEN_7
    THEN IF l.has_depth \/ l.has_stencil
         THEN [l EXCEPT !.interleaved = TRUE, !.array_spacing_full = TRUE]
         ELSE [l EXCEPT !.interleaved = FALSE,
                        !.array_spacing_full = (templ.last_level > 0)]
    ELSE [l EXCEPT !.interleaved = TRUE,
                   !.array_spacing_full = (l.format # "S8_UINT")]

-----------------------------------------------------------------------------
(* tex_layout_init_levels *)

(* the last level without the extra level for the full qpitch *)
levels_last_level_templ(l) == templ.last_level

levels_last_level(l) ==
    IF templ.last_level = 0 /\ templ.array_size > 1 /\ l.array_spacing_full
    THEN templ.last_level + 1 ELSE templ.last_level

levels_assert_ok(l) ==
    l.interleaved => templ.nr_samples \in {0, 1, 2, 4, 8, 16}

level_size(l, lv) ==
    LET w0 == align(u_minify(templ.width0, lv), l.block_width)
        h0 == align(u_minify(templ.height0, lv), l.block_height)
        d == u_minify(templ.depth0, lv)
        n == templ.nr_samples
        w == IF ~l.interleaved THEN w0
             ELSE CASE n \in {2, 4} -> align(w0, 2) * 2
                    [] n \in {8, 16} -> align(w0, 2) * 4
                    [] OTHER -> w0
        h == IF ~l.interleaved THEN h0
             ELSE CASE n \in {4, 8} -> align(h0, 2) * 2
                    [] n = 16 -> align(h0, 2) * 4
                    [] OTHER -> h0
    IN  [w |-> w, h |-> h, d |-> d]

tex_layout_init_levels(l) ==
    [l EXCEPT !.levels =
        [lv \in LevelIdx |->
            IF lv <= levels_last_level(l)
            THEN [w |-> level_size(l, lv).w, h |-> level_size(l, lv).h,
                  d |-> level_size(l, lv).d, slices |-> l.levels[lv].slices]
            ELSE l.levels[lv]]]

-----------------------------------------------------------------------------
(* tex_layout_init_alignments *)

valign_4(l) ==
    templ.nr_samples > 1
    \/ (gen >= ILO_GEN_7 /\ l.tiling = "Y" /\ "RENDER_TARGET" \in templ.bind)

(* mutant: block width and height are swapped for compressed formats *)
alignment_units_swapped(l) ==
    IF l.compressed
    THEN [i |-> l.block_height, j |-> l.block_width]
    ELSE IF l.has_depth \/ l.has_stencil
    THEN IF gen >= ILO_GEN_7
         THEN CASE l.format = "Z16_UNORM" -> [i |-> 8, j |-> 4]
                [] l.format = "S8_UINT" -> [i |-> 8, j |-> 8]
                [] OTHER -> [i |-> 4, j |-> 4]
         ELSE CASE l.format = "S8_UINT" -> [i |-> 4, j |-> 2]
                [] OTHER -> [i |-> 4, j |-> 4]
    ELSE [i |-> 4, j |-> IF valign_4(l) THEN 4 ELSE 2]

(* mutant: the Sandy Bridge table is used on every generation *)
alignment_units_snb(l) ==
    IF l.compressed
    THEN [i |-> l.block_width, j |-> l.block_height]
    ELSE IF l.has_depth \/ l.has_stencil
    THEN CASE l.format = "S8_UINT" -> [i |-> 4, j |-> 2]
           [] OTHER -> [i |-> 4, j |-> 4]
    ELSE [i |-> 4, j |-> IF valign_4(l) THEN 4 ELSE 2]

alignment_units(l) ==
    IF l.compressed
    THEN [i |-> l.block_width, j |-> l.block_height]
    ELSE IF l.has_depth \/ l.has_stencil
    THEN IF gen >= ILO_GEN_7
         THEN CASE l.format = "Z16_UNORM" -> [i |-> 8, j |-> 4]
                [] l.format = "S8_UINT" -> [i |-> 8, j |-> 8]
                [] OTHER -> [i |-> 4, j |-> 4]
         ELSE CASE l.format = "S8_UINT" -> [i |-> 4, j |-> 2]
                [] OTHER -> [i |-> 4, j |-> 4]
    ELSE [i |-> 4, j |-> IF valign_4(l) THEN 4 ELSE 2]

tex_layout_init_alignments(l) ==
    [l EXCEPT !.align_i = alignment_units(l).i, !.align_j = alignment_units(l).j]

(* assert(layout->block_size != 12) under valign_4 *)
alignments_assert_bpp96(l) ==
    (~l.compressed /\ ~(l.has_depth \/ l.has_stencil) /\ valign_4(l))
        => l.block_size # 12

(* the four assertions that close the function, on the updated layout *)
alignments_assert_units(l) ==
    /\ l.align_i % l.block_width = 0
    /\ l.align_j % l.block_height = 0
    /\ util_is_power_of_two(l.align_i) /\ util_is_power_of_two(l.align_j)
    /\ util_is_power_of_two(l.block_width) /\ util_is_power_of_two(l.block_height)

-----------------------------------------------------------------------------
(* tex_layout_init_qpitch *)

(* mutant: the early return is taken for an empty array only *)
tex_layout_init_qpitch_lt(l) ==
    LET h0 == align(l.levels[0].h, l.align_j)
        h1 == align(l.levels[1].h, l.align_j)
        q == h0 + h1 + (IF gen >= ILO_GEN_7 THEN 12 ELSE 11) * l.align_j
    IN  IF templ.array_size < 1 THEN l
        ELSE IF ~l.array_spacing_full THEN [l EXCEPT !.qpitch = h0]
        ELSE IF gen = ILO_GEN_6 /\ templ.nr_samples > 1 /\ templ.height0 % 4 = 1
        THEN [l EXCEPT !.qpitch = q + 4]
        ELSE [l EXCEPT !.qpitch = q]

(* the qpitch without the addition for multisampled surfaces of GEN6 *)
tex_layout_init_qpitch_plain(l) ==
    LET h0 == align(l.levels[0].h, l.align_j)
        h1 == align(l.levels[1].h, l.align_j)
        q == h0 + h1 + (IF gen >= ILO_GEN_7 THEN 12 ELSE 11) * l.align_j
    IN  IF templ.array_size <= 1 THEN l
        ELSE IF ~l.array_spacing_full THEN [l EXCEPT !.qpitch = h0]
        ELSE [l EXCEPT !.qpitch = q]

tex_layout_init_qpitch(l) ==
    LET h0 == align(l.levels[0].h, l.align_j)
        h1 == align(l.levels[1].h, l.align_j)
        q == h0 + h1 + (IF gen >= ILO_GEN_7 THEN 12 ELSE 11) * l.align_j
    IN  IF templ.array_size <= 1 THEN l
        ELSE IF ~l.array_spacing_full THEN [l EXCEPT !.qpitch = h0]
        ELSE IF gen = ILO_GEN_6 /\ templ.nr_samples > 1 /\ templ.height0 % 4 = 1
        THEN [l EXCEPT !.qpitch = q + 4]
        ELSE [l EXCEPT !.qpitch = q]

-----------------------------------------------------------------------------
(* tex_layout_init: the persistent-mapping check and the slice pointers *)

(* mutant: the stencil-only format is not rejected *)
init_map_persistent_ok_s8(l) ==
    ~(templ.map_persistent /\ (l.separate_stencil \/ l.format # templ.format))

init_map_persistent_ok(l) ==
    ~(templ.map_persistent
      /\ (l.separate_stencil \/ l.format = "S8_UINT" \/ l.format # templ.format))

init_set_slices(l) ==
    IF has_slices
    THEN [l EXCEPT !.levels =
            [lv \in LevelIdx |->
                IF lv <= templ.last_level
                THEN [l.levels[lv] EXCEPT !.slices = TRUE]
                ELSE l.levels[lv]]]
    ELSE l

-----------------------------------------------------------------------------
(* tex_layout_align *)

(* the padding pass that adds the rows of a cube after the rounding *)
tex_layout_align_pad_after(l) ==
    LET sv == "SAMPLER_VIEW" \in templ.bind
        w1 == IF sv THEN MAX2(1, l.align_i) ELSE 1
        h1 == IF sv THEN MAX2(1, l.align_j) ELSE 1
        pad_h == IF sv /\ templ.target = "CUBE" THEN 2 ELSE 0
        h2 == IF sv /\ l.compressed THEN MAX2(h1, l.align_j * 2) ELSE h1
        h3 == IF "RENDER_TARGET" \in templ.bind THEN MAX2(h2, 2) ELSE h2
        align_w == IF l.hiz THEN MAX2(w1, 8) ELSE w1
        align_h == IF l.hiz THEN MAX2(h3, 4) ELSE h3
    IN  [l EXCEPT !.width = align(l.width, align_w),
                  !.height = align(l.height, align_h) + pad_h]

tex_layout_align(l) ==
    LET sv == "SAMPLER_VIEW" \in templ.bind
        w1 == IF sv THEN MAX2(1, l.align_i) ELSE 1
        h1 == IF sv THEN MAX2(1, l.align_j) ELSE 1
        pad_h == IF sv /\ templ.target = "CUBE" THEN 2 ELSE 0
        h2 == IF sv /\ l.compressed THEN MAX2(h1, l.align_j * 2) ELSE h1
        h3 == IF "RENDER_TARGET" \in templ.bind THEN MAX2(h2, 2) ELSE h2
        align_w == IF l.hiz THEN MAX2(w1, 8) ELSE w1
        align_h == IF l.hiz THEN MAX2(h3, 4) ELSE h3
    IN  [l EXCEPT !.width = align(l.width, align_w),
                  !.height = align(l.height + pad_h, align_h)]

(* cells of the slice storage written with new values *)
WriteSlices(sl, new) ==
    [c \in (DOMAIN sl) \cup (DOMAIN new) |-> IF c \in DOMAIN new THEN new[c] ELSE sl[c]]

-----------------------------------------------------------------------------
(* tex_layout_2d *)

(* the walk over the levels that steps to the right after level 0 *)
RECURSIVE layout_2d_levels_right(_, _, _)
layout_2d_levels_right(l, lv, st) ==
    IF lv > templ.last_level THEN st
    ELSE LET level_w == l.levels[lv].w
             level_h == l.levels[lv].h
             new == IF l.levels[lv].slices
                    THEN [c \in {<<lv, slice>> : slice \in 0 .. (templ.array_size - 1)} |->
                            <<st.level_x, st.level_y + l.qpitch * c[2]>>]
                    ELSE EmptySlices
             width == IF st.width < st.level_x + level_w
                      THEN st.level_x + level_w ELSE st.width
             height == IF st.height < st.level_y + level_h
                       THEN st.level_y + level_h ELSE st.height
         IN  layout_2d_levels_right(l, lv + 1,
                [level_x |-> IF lv = 0 THEN st.level_x + align(level_w, l.align_i)
                             ELSE st.level_x,
                 level_y |-> IF lv = 0 THEN st.level_y
                             ELSE st.level_y + align(level_h, l.align_j),
                 width |-> width, height |-> height,
                 sl |-> WriteSlices(st.sl, new)])

RECURSIVE layout_2d_levels(_, _, _)
layout_2d_levels(l, lv, st) ==
    IF lv > templ.last_level THEN st
    ELSE LET level_w == l.levels[lv].w
             level_h == l.levels[lv].h
             new == IF l.levels[lv].slices
                    THEN [c \in {<<lv, slice>> : slice \in 0 .. (templ.array_size - 1)} |->
                            <<st.level_x, st.level_y + l.qpitch * c[2]>>]
                    ELSE EmptySlices
             width == IF st.width < st.level_x + level_w
                      THEN st.level_x + level_w ELSE st.width
             height == IF st.height < st.level_y + level_h
                       THEN st.level_y + level_h ELSE st.height
         IN  layout_2d_levels(l, lv + 1,
                [level_x |-> IF lv = 1 THEN st.level_x + align(level_w, l.align_i)
                             ELSE st.level_x,
                 level_y |-> IF lv = 1 THEN st.level_y
                             ELSE st.level_y + align(level_h, l.align_j),
                 width |-> width, height |-> height,
                 sl |-> WriteSlices(st.sl, new)])

(* mutant: the array slices are not counted *)
layout_2d_num_slices_one(l) == 1

layout_2d_num_slices(l) ==
    IF templ.nr_samples > 1 /\ ~l.interleaved
    THEN templ.array_size * templ.nr_samples ELSE templ.array_size

layout_2d_walk(l, sl) ==
    layout_2d_levels(l, 0, [level_x |-> 0, level_y |-> 0,
                            width |-> l.width, height |-> l.height, sl |-> sl])

tex_layout_2d(l, sl) ==
    LET st == layout_2d_walk(l, sl)
    IN  tex_layout_align(
            [l EXCEPT !.width = st.width,
                      !.height = st.height + l.qpitch * (layout_2d_num_slices(l) - 1)])

-----------------------------------------------------------------------------
(* tex_layout_3d *)

(* the rows of slices of one level, every row written in full *)
RECURSIVE layout_3d_rows_full(_, _, _, _)
layout_3d_rows_full(l, lv, slice, st) ==
    LET level_d == l.levels[lv].d
        slice_pitch == align(l.levels[lv].w, l.align_i)
        slice_qpitch == align(l.levels[lv].h, l.align_j)
        num_slices_per_row == 2 ^ lv
        new == IF l.levels[lv].slices
               THEN [c \in {<<lv, slice + i>> : i \in 0 .. (num_slices_per_row - 1)} |->
                        <<slice_pitch * (c[2] - slice), st.level_y>>]
               ELSE EmptySlices
    IN  IF slice >= level_d THEN st
        ELSE layout_3d_rows_full(l, lv, slice + num_slices_per_row,
                [st EXCEPT !.level_y = st.level_y + slice_qpitch,
                           !.sl = WriteSlices(st.sl, new)])

(* the rows of slices of one level: the inner for loop over slice *)
RECURSIVE layout_3d_rows(_, _, _, _)
layout_3d_rows(l, lv, slice, st) ==
    LET level_d == l.levels[lv].d
        slice_pitch == align(l.levels[lv].w, l.align_i)
        slice_qpitch == align(l.levels[lv].h, l.align_j)
        num_slices_per_row == 2 ^ lv
        new == IF l.levels[lv].slices
               THEN [c \in {<<lv, slice + i>> :
                            i \in {k \in 0 .. (num_slices_per_row - 1) : slice + k < level_d}} |->
                        <<slice_pitch * (c[2] - slice), st.level_y>>]
               ELSE EmptySlices
    IN  IF slice >= level_d THEN st
        ELSE layout_3d_rows(l, lv, slice + num_slices_per_row,
                [st EXCEPT !.level_y = st.level_y + slice_qpitch,
                           !.sl = WriteSlices(st.sl, new)])

RECURSIVE layout_3d_levels(_, _, _)
layout_3d_levels(l, lv, st) ==
    IF lv > templ.last_level THEN st
    ELSE LET level_w == l.levels[lv].w
             level_h == l.levels[lv].h
             level_d == l.levels[lv].d
             slice_pitch == align(level_w, l.align_i)
             slice_qpitch == align(level_h, l.align_j)
             rows == layout_3d_rows(l, lv, 0, st)
             slice == MIN2(2 ^ lv, level_d) - 1
             width == IF rows.width < slice_pitch * slice + level_w
                      THEN slice_pitch * slice + level_w ELSE rows.width
             height == IF lv = templ.last_level
                       THEN (rows.level_y - slice_qpitch) + level_h ELSE rows.height
         IN  layout_3d_levels(l, lv + 1,
                [rows EXCEPT !.width = width, !.height = height])

layout_3d_walk(l, sl) ==
    layout_3d_levels(l, 0, [level_y |-> 0, width |-> l.width, height |-> l.height,
                            sl |-> sl])

tex_layout_3d(l, sl) ==
    LET st == layout_3d_walk(l, sl)
    IN  tex_layout_align([l EXCEPT !.width = st.width, !.height = st.height])

-----------------------------------------------------------------------------
(* tex_layout_calculate_bo_size *)

bo_size_assert_ok(l) ==
    /\ l.width % l.block_width = 0
    /\ l.height % l.block_height = 0
    /\ l.qpitch % l.block_height = 0

bo_size_begin(l) ==
    [l EXCEPT !.bo_stride = (l.width \div l.block_width) * l.block_size,
              !.bo_height = l.height \div l.block_height]

(* the tile granularity of a tiling mode: the switch on layout->tiling *)
(* the granularities with those of X and Y exchanged *)
tile_align_swapped(tiling, format) ==
    CASE tiling = "X" -> [w |-> 128, h |-> 32]
      [] tiling = "Y" -> [w |-> 512, h |-> 8]
      [] OTHER -> IF format = "S8_UINT" THEN [w |-> 64, h |-> 64]
                  ELSE [w |-> 64, h |-> 2]

tile_align(tiling, format) ==
    CASE tiling = "X" -> [w |-> 512, h |-> 8]
      [] tiling = "Y" -> [w |-> 128, h |-> 32]
      [] OTHER -> IF format = "S8_UINT" THEN [w |-> 64, h |-> 64]
                  ELSE [w |-> 64, h |-> 2]

mappable_gtt_size == 256 * 1024 * 1024

(* the linear padding of 64 bytes, added to layout->bo_height *)
bo_size_pad(l) ==
    IF gen >= ILO_GEN_7_5 /\ "SAMPLER_VIEW" \in templ.bind /\ l.tiling = "NONE"
    THEN [l EXCEPT !.bo_height = l.bo_height + (64 + l.bo_stride - 1) \div l.bo_stride]
    ELSE l

(* the aperture test without the test of the tiling *)
bo_size_unmappable_any(l, w, h) == (mappable_gtt_size \div w) \div 4 < h

(* the surface, rounded to w x h, does not fit the mappable aperture *)
bo_size_unmappable(l, w, h) ==
    l.tiling # "NONE" /\ (mappable_gtt_size \div w) \div 4 < h

(* the body of the loop, falling back to linear without asking valid_tilings *)
bo_size_body_force(l) ==
    LET w0 == l.bo_stride
        h0 == l.bo_height
        l1 == bo_size_pad(l)
        a == tile_align(l1.tiling, l1.format)
        w == align(w0, a.w)
        h == align(h0, a.h)
    IN  IF bo_size_unmappable(l1, w, h)
        THEN [l |-> [l1 EXCEPT !.tiling = "NONE"], again |-> TRUE]
        ELSE [l |-> [l1 EXCEPT !.bo_stride = w, !.bo_height = h], again |-> FALSE]

(* one run of the body of the while loop: the layout it leaves, and whether
   it left by continue *)
bo_size_body(l) ==
    LET w0 == l.bo_stride
        h0 == l.bo_height
        l1 == bo_size_pad(l)
        a == tile_align(l1.tiling, l1.format)
        w == align(w0, a.w)
        h == align(h0, a.h)
    IN  IF bo_size_unmappable(l1, w, h) /\ "NONE" \in l1.valid_tilings
        THEN [l |-> [l1 EXCEPT !.tiling = "NONE"], again |-> TRUE]
        ELSE [l |-> [l1 EXCEPT !.bo_stride = w, !.bo_height = h], again |-> FALSE]

(* max_resource_size / stride, max_resource_size = 1u << 31 *)
max_resource_size_div(stride) ==
    LET half == 1073741824
    IN  2 * (half \div stride) + (2 * (half % stride)) \div stride

(* mutant: a surface of exactly the maximum size is refused *)
bo_size_result_strict(l) == l.bo_height < max_resource_size_div(l.bo_stride)

bo_size_result(l) == l.bo_height <= max_resource_size_div(l.bo_stride)

-----------------------------------------------------------------------------
(* tex_layout_calculate_hiz_size *)

RECURSIVE hiz_3d_height(_, _)
hiz_3d_height(l, lv) ==
    IF lv > templ.last_level THEN 0
    ELSE align(l.levels[lv].h, 8) * l.levels[lv].d + hiz_3d_height(l, lv + 1)

tex_layout_calculate_hiz_size(l) ==
    LET hz_align_j == 8
        hz_width == align(l.levels[0].w, 16)
        h0 == align(l.levels[0].h, hz_align_j)
        h1 == align(l.levels[1].h, hz_align_j)
        htail == (IF gen >= ILO_GEN_7 THEN 12 ELSE 11) * hz_align_j
        hz_qpitch == IF l.array_spacing_full THEN h0 + h1 + htail ELSE h0
        h2d == (hz_qpitch * templ.array_size) \div 2
        hz_height == IF templ.target = "3D" THEN hiz_3d_height(l, 0) \div 2
                     ELSE IF gen >= ILO_GEN_7 THEN align(h2d, 8) ELSE h2d
    IN  IF ~l.hiz THEN l
        ELSE [l EXCEPT !.hiz_stride = align(hz_width, 128),
                       !.hiz_height = align(hz_height, 32)]

-----------------------------------------------------------------------------
(* The resources laid out *)

ColorFormats == {"R8G8B8A8_UNORM", "R32G32B32_FLOAT", "R32G32B32A32_FLOAT"}

CompressedFormats == {"ETC1_RGB8", "DXT1_RGB", "FXT1_RGB"}

(* subsampled formats: a block of two texels, not compressed *)
SubsampledFormats == {"UYVY"}

DepthFormats == {"Z16_UNORM", "Z32_FLOAT", "Z24_UNORM_S8_UINT",
                 "Z32_FLOAT_S8X24_UINT", "S8_UINT"}

(* bindings a format is created with *)
BindsOf(f) ==
    IF f \in ColorFormats
    THEN {{}, {"SAMPLER_VIEW"}, {"RENDER_TARGET"}, {"RENDER_TARGET", "SAMPLER_VIEW"},
          {"RENDER_TARGET", "SCANOUT"}, {"CURSOR"}, {"SCANOUT", "CURSOR"}, {"MCS"},
          {"RENDER_TARGET", "MCS"}}
    ELSE IF f \in CompressedFormats
    THEN {{}, {"SAMPLER_VIEW"}}
    ELSE IF f \in SubsampledFormats
    THEN {{"SAMPLER_VIEW"}}
    ELSE {{"DEPTH_STENCIL"}, {"DEPTH_STENCIL", "SAMPLER_VIEW"}, {"SAMPLER_VIEW"}}

SmallDims == {<<5, 5>>, <<64, 8>>, <<64, 64>>, <<16, 40>>}

(* sizes on both sides of the thresholds 16 and 32 of the tiling heuristics *)
EdgeDims == {<<24, 24>>, <<40, 16>>, <<32, 8>>}

BigDims == {<<8192, 4096>>, <<8192, 16384>>, <<16384, 16384>>}

Shape(t, wh, d, a, lvl, n) ==
    [target |-> t, width0 |-> wh[1], height0 |-> wh[2], depth0 |-> d,
     array_size |-> a, last_level |-> lvl, nr_samples |-> n]

Shapes ==
    {Shape("2D", wh, 1, a, lvl, n) :
        wh \in SmallDims, a \in 1 .. MaxArraySize, lvl \in 0 .. MaxLastLevel, n \in {1, 4}}
    \cup {Shape("CUBE", <<64, 64>>, 1, 6, lvl, 1) : lvl \in 0 .. MaxLastLevel}
    \cup {Shape("3D", wh, 4, 1, lvl, 1) : wh \in {<<5, 5>>, <<64, 64>>}, lvl \in 0 .. MaxLastLevel}
    \cup {Shape("2D", wh, 1, 1, 0, 1) : wh \in BigDims \cup EdgeDims}
    \cup {Shape("2D", <<5, 5>>, 1, 0, lvl, n) : lvl \in 0 .. MaxLastLevel, n \in {1, 4}}

(* staging usage, persistent mapping, ILO_DEBUG_NOHIZ, slice storage given *)
Options ==
    {<<FALSE, FALSE, FALSE, TRUE>>, <<TRUE, FALSE, FALSE, TRUE>>,
     <<FALSE, TRUE, FALSE, TRUE>>, <<FALSE, FALSE, TRUE, FALSE>>}

Templ(sh, f, b, o) ==
    [target |-> sh.target, format |-> f,
     width0 |-> sh.width0, height0 |-> sh.height0, depth0 |-> sh.depth0,
     last_level |-> sh.last_level, array_size |-> sh.array_size,
     nr_samples |-> sh.nr_samples, bind |-> b,
     staging |-> o[1], map_persistent |-> o[2]]

-----------------------------------------------------------------------------
(* The computation *)

Init ==
    /\ \E sh \in Shapes, f \in ColorFormats \cup CompressedFormats \cup SubsampledFormats \cup DepthFormats,
          o \in Options :
          \E b \in BindsOf(f) :
             /\ templ = Templ(sh, f, b, o)
             /\ nohiz = o[3]
             /\ has_slices = o[4]
    /\ gen \in Gens
    /\ layout \in {ZeroLayout, DirtyLayout}
    /\ slices = EmptySlices
    /\ pc = "init"
    /\ ret = TRUE
    /\ failed = "none"
    /\ iters = 0
    /\ last = NoOutcome
    /\ runs = 1

Goto(p) == pc' = p /\ UNCHANGED <<inputs, slices, ret, failed, iters, last, runs>>

Abort(name) ==
    /\ pc' = "abort"
    /\ failed' = name
    /\ UNCHANGED <<inputs, layout, slices, ret, iters, last, runs>>

(* tex_layout_init clears the layout *)
InitBegin ==
    /\ pc = "init"
    /\ layout' = tex_layout_memset(layout)
    /\ Goto("hiz")

InitHiz ==
    /\ pc = "hiz"
    /\ layout' = tex_layout_init_hiz(layout)
    /\ Goto("format")

InitFormat ==
    /\ pc = "format"
    /\ layout' = tex_layout_init_format(layout)
    /\ Goto("tiling")

InitTiling ==
    /\ pc = "tiling"
    /\ IF tiling_mask(layout) = {}
       THEN Abort("valid_tilings")
       ELSE layout' = tex_layout_init_tiling(layout) /\ Goto("spacing")

InitSpacing ==
    /\ pc = "spacing"
    /\ IF ~spacing_assert_ok(layout)
       THEN Abort("last_level")
       ELSE layout' = tex_layout_init_spacing(layout) /\ Goto("levels")

InitLevels ==
    /\ pc = "levels"
    /\ IF ~levels_assert_ok(layout)
       THEN Abort("nr_samples")
       ELSE layout' = tex_layout_init_levels(layout) /\ Goto("alignments")

InitAlignments ==
    /\ pc = "alignments"
    /\ IF ~alignments_assert_bpp96(layout)
       THEN Abort("bpp96")
       ELSE IF ~alignments_assert_units(tex_layout_init_alignments(layout))
       THEN Abort("align_units")
       ELSE layout' = tex_layout_init_alignments(layout) /\ Goto("qpitch")

InitQpitch ==
    /\ pc = "qpitch"
    /\ layout' = tex_layout_init_qpitch(layout)
    /\ Goto("init_end")

(* the end of tex_layout_init: false, or the slice pointers and true *)
InitEnd ==
    /\ pc = "init_end"
    /\ IF init_map_persistent_ok(layout)
       THEN /\ layout' = init_set_slices(layout)
            /\ ret' = TRUE
            /\ pc' = "pack"
       ELSE /\ ret' = FALSE
            /\ pc' = "fail"
            /\ UNCHANGED layout
    /\ UNCHANGED <<inputs, slices, failed, iters, last, runs>>

(* the packer of the target *)
UsesLayout3D == templ.target = "3D"

Layout2D ==
    /\ pc = "pack"
    /\ ~UsesLayout3D
    /\ layout' = tex_layout_2d(layout, slices)
    /\ slices' = layout_2d_walk(layout, slices).sl
    /\ pc' = "bo_size"
    /\ UNCHANGED <<inputs, ret, failed, iters, last, runs>>

Layout3D ==
    /\ pc = "pack"
    /\ UsesLayout3D
    /\ layout' = tex_layout_3d(layout, slices)
    /\ slices' = layout_3d_walk(layout, slices).sl
    /\ pc' = "bo_size"
    /\ UNCHANGED <<inputs, ret, failed, iters, last, runs>>

BoSizeBegin ==
    /\ pc = "bo_size"
    /\ IF ~bo_size_assert_ok(layout)
       THEN Abort("bo_size")
       ELSE layout' = bo_size_begin(layout) /\ Goto("bo_loop")

BoSizeLoop ==
    /\ pc = "bo_loop"
    /\ layout' = bo_size_body(layout).l
    /\ iters' = iters + 1
    /\ pc' = IF bo_size_body(layout).again THEN "bo_loop" ELSE "bo_ret"
    /\ UNCHANGED <<inputs, slices, ret, failed, last, runs>>

BoSizeReturn ==
    /\ pc = "bo_ret"
    /\ ret' = bo_size_result(layout)
    /\ pc' = IF bo_size_result(layout) THEN "hiz_size" ELSE "fail"
    /\ UNCHANGED <<inputs, layout, slices, failed, iters, last, runs>>

HizSize ==
    /\ pc = "hiz_size"
    /\ layout' = tex_layout_calculate_hiz_size(layout)
    /\ Goto("done")

Next ==
    \/ InitBegin \/ InitHiz \/ InitFormat \/ InitTiling \/ InitSpacing
    \/ InitLevels \/ InitAlignments \/ InitQpitch \/ InitEnd
    \/ Layout2D \/ Layout3D
    \/ BoSizeBegin \/ BoSizeLoop \/ BoSizeReturn \/ HizSize

Spec == Init /\ [][Next]_vars

(* a second computation with the same arguments, on the memory the first left *)
Rerun ==
    /\ pc \in {"done", "fail"}
    /\ runs = 1
    /\ last' = [layout |-> layout, slices |-> slices, ret |-> ret, pc |-> pc]
    /\ runs' = 2
    /\ pc' = "init"
    /\ ret' = TRUE
    /\ iters' = 0
    /\ UNCHANGED <<inputs, layout, slices, failed>>

NextRerun == Next \/ Rerun

SpecRerun == Init /\ [][NextRerun]_vars

-----------------------------------------------------------------------------
(* Where the computation stands *)

Order ==
    <<"init", "hiz", "format", "tiling", "spacing", "levels", "alignments",
      "qpitch", "init_end", "pack", "bo_size", "bo_loop", "bo_ret", "hiz_size",
      "done">>

Pos(p) == CHOOSE i \in 1 .. Len(Order) : Order[i] = p

(* the stage an assert() belongs to *)
AbortStage(name) ==
    CASE name = "valid_tilings" -> "tiling"
      [] name = "last_level" -> "spacing"
      [] name = "nr_samples" -> "levels"
      [] name \in {"bpp96", "align_units"} -> "alignments"
      [] OTHER -> "bo_size"

(* the position of the step that would run next, had the computation not ended *)
Where ==
    CASE pc = "abort" -> Pos(AbortStage(failed))
      [] pc = "fail" -> IF iters = 0 THEN Pos("pack") ELSE Pos("hiz_size")
      [] OTHER -> Pos(pc)

(* the step at position p has run to its end in this computation *)
Completed(p) == Where > Pos(p)

IsPow2(n) == n \in {1, 2, 4, 8, 16, 32, 64}

-----------------------------------------------------------------------------
(* C1: whenever the tiling selector has passed its non-empty-mask assertion,
   the chosen tiling mode is a member of layout.valid_tilings: right after
   tex_layout_init_tiling, with the heuristics applied, and in every later
   state, also after tex_layout_calculate_bo_size switched the mode to
   linear. *)
C1_TilingInMask ==
    Completed("tiling") => layout.tiling \in layout.valid_tilings

(* the sizing loop has switched a tiled surface to linear *)
C1_Witness ==
    /\ pc = "done"
    /\ iters = 2
    /\ layout.tiling = "NONE"
    /\ layout.valid_tilings = Tilings

(* C2: tex_layout_init_alignments never fails its closing assertions, and
   leaves align_i and align_j powers of two, align_i a multiple of
   block_width and align_j a multiple of block_height. *)
C2_AlignUnits ==
    /\ failed # "align_units"
    /\ Completed("alignments") =>
          /\ IsPow2(layout.align_i) /\ IsPow2(layout.align_j)
          /\ layout.align_i % layout.block_width = 0
          /\ layout.align_j % layout.block_height = 0

(* a compressed format whose block is wider than it is high *)
C2_Witness ==
    /\ pc = "qpitch"
    /\ layout.compressed
    /\ layout.block_width = 8 /\ layout.block_height = 4
    /\ layout.align_i = 8 /\ layout.align_j = 4

(* C3: after the packer, every recorded slice offset (x, y) of every level
   lv in 0..last_level has x + levels[lv].w <= layout.width and
   y + levels[lv].h <= layout.height. *)
C3_PlaneBounds ==
    Completed("pack") =>
        \A c \in DOMAIN slices :
            c[1] \in 0 .. templ.last_level =>
                /\ slices[c][1] + layout.levels[c[1]].w <= layout.width
                /\ slices[c][2] + layout.levels[c[1]].h <= layout.height

(* an array of mipmapped slices has been packed, the last slice below the first *)
C3_Witness ==
    /\ pc = "bo_size"
    /\ templ.array_size > 1 /\ templ.last_level = 2
    /\ <<2, 1>> \in DOMAIN slices
    /\ slices[<<2, 1>>][1] > 0
    /\ slices[<<2, 1>>][2] > layout.qpitch

(* C4: tex_layout_init returns false exactly when the resource is mapped
   persistently and separate stencil was chosen, or the format is S8_UINT,
   or the format differs from the template's.  A persistently mapped
   combined depth-stencil resource whose stencil is split (GEN7 and later,
   GEN6 with HiZ) always fails; without the flag the function returns true. *)
C4_InitFailure ==
    Completed("init_end") =>
        LET init_failed == (pc = "fail" /\ iters = 0)
            combined == templ.format \in {"Z24_UNORM_S8_UINT", "Z32_FLOAT_S8X24_UINT"}
        IN  /\ init_failed <=>
                  (templ.map_persistent
                   /\ (layout.separate_stencil \/ layout.format = "S8_UINT"
                       \/ layout.format # templ.format))
            /\ (templ.map_persistent /\ combined
                /\ (gen >= ILO_GEN_7 \/ (gen = ILO_GEN_6 /\ layout.hiz)))
                  => init_failed
            /\ ~templ.map_persistent => ~init_failed

(* a persistently mapped combined format on GEN6 without HiZ is accepted *)
C4_Witness ==
    /\ pc = "pack"
    /\ templ.map_persistent
    /\ templ.format = "Z24_UNORM_S8_UINT"
    /\ gen = ILO_GEN_6
    /\ ~layout.hiz

(* C5: tex_layout_calculate_bo_size returns true if and only if the final
   bo_stride times the final bo_height is at most 2^31.  The stride is a
   multiple of 64, and the product is compared in units of 64 bytes. *)
C5_MaxSize ==
    (Completed("bo_ret") /\ pc # "abort") =>
        /\ layout.bo_stride % 64 = 0
        /\ ret <=> ((layout.bo_stride \div 64) * layout.bo_height <= 33554432)

(* a surface too large also after the fallback to linear *)
C5_Witness ==
    /\ pc = "fail"
    /\ iters = 2
    /\ layout.tiling = "NONE"
    /\ (layout.bo_stride \div 64) * layout.bo_height > 33554432

(* C6: a second computation with the same resource, device, debug mask and
   slice storage, run on the memory the first one left, ends with the same
   layout, the same slice offsets and the same result; and no step changes
   the resource template, the generation or the debug mask. *)
C6_Deterministic ==
    /\ []((runs = 2 /\ pc \in {"done", "fail"}) =>
            last = [layout |-> layout, slices |-> slices, ret |-> ret, pc |-> pc])
    /\ [][inputs' = inputs]_vars

(* the second computation has ended, on a layout with slices and HiZ *)
C6_Witness ==
    /\ runs = 2
    /\ pc = "done"
    /\ layout.hiz
    /\ templ.array_size > 1
    /\ DOMAIN slices # {}

(* C7: with at most one array layer the qpitch is 0 after
   tex_layout_init_qpitch, whatever the sample count, mip count, format and
   generation. *)
C7_QpitchZero ==
    (Completed("qpitch") /\ templ.array_size <= 1) => layout.qpitch = 0

(* a multisampled, single-layer resource past the qpitch stage *)
C7_Witness ==
    /\ pc = "init_end"
    /\ templ.array_size = 1
    /\ templ.nr_samples = 4
    /\ layout.levels[0].h > 0

(* C8: scenario 1.  A 64x64 2D texture of a 4-byte colour format, one level,
   one layer, one sample, bound as sampler view only, on GEN7. *)
Scenario1 ==
    /\ templ.target = "2D"
    /\ templ.format = "R8G8B8A8_UNORM"
    /\ templ.width0 = 64 /\ templ.height0 = 64 /\ templ.depth0 = 1
    /\ templ.last_level = 0 /\ templ.array_size = 1 /\ templ.nr_samples = 1
    /\ templ.bind = {"SAMPLER_VIEW"}
    /\ gen = ILO_GEN_7

C8_Scenario1 ==
    /\ (Scenario1 /\ pc \in {"abort", "fail"}) => FALSE
    /\ (Scenario1 /\ pc = "done") =>
          /\ layout.tiling = "Y"
          /\ layout.align_i = 4 /\ layout.align_j = 2
          /\ layout.qpitch = 0
          /\ layout.width = 64 /\ layout.height = 64
          /\ layout.bo_stride = 256 /\ layout.bo_height = 64

C8_Witness == Scenario1 /\ pc = "done" /\ ret

(* C9: scenario 2.  A 64x64 2D S8_UINT texture bound as depth/stencil, one
   level, one layer, one sample, on GEN7. *)
Scenario2 ==
    /\ templ.target = "2D"
    /\ templ.format = "S8_UINT"
    /\ templ.width0 = 64 /\ templ.height0 = 64 /\ templ.depth0 = 1
    /\ templ.last_level = 0 /\ templ.array_size = 1 /\ templ.nr_samples = 1
    /\ "DEPTH_STENCIL" \in templ.bind
    /\ ~templ.map_persistent
    /\ gen = ILO_GEN_7

C9_Scenario2 ==
    /\ (Scenario2 /\ pc \in {"abort", "fail"}) => FALSE
    /\ (Scenario2 /\ pc = "done") =>
          /\ layout.tiling = "NONE"
          /\ layout.align_i = 8 /\ layout.align_j = 8
          /\ layout.qpitch = 0
          /\ layout.width = 64 /\ layout.height = 64
          /\ layout.bo_stride = 64 /\ layout.bo_height = 64

C9_Witness == Scenario2 /\ pc = "done" /\ ret /\ templ.bind = {"DEPTH_STENCIL"}

(* C10: after tex_layout_init_hiz, HiZ is enabled only if the template's
   format has a depth channel, the usage is not staging and ILO_DEBUG_NOHIZ
   is off, and on GEN6 only if the resource has one level, at most one
   layer and depth at most 1. *)
C10_HizOnlyIf ==
    (Completed("hiz") /\ layout.hiz) =>
        /\ util_format_has_depth(templ.format)
        /\ ~templ.staging
        /\ ~nohiz
        /\ gen = ILO_GEN_6 =>
              (templ.last_level = 0 /\ templ.array_size <= 1 /\ templ.depth0 <= 1)

(* HiZ is on for a depth texture of GEN6 *)
C10_Witness ==
    /\ pc = "format"
    /\ gen = ILO_GEN_6
    /\ layout.hiz
    /\ layout.separate_stencil

(* one step of the sizing loop, as C11 describes it *)
C11_Step ==
    (pc = "bo_loop" /\ iters' # iters) =>
        /\ iters' = iters + 1
        /\ pc' = "bo_loop" => (layout.tiling \in {"X", "Y"} /\ layout'.tiling = "NONE")
        /\ layout.tiling = "NONE" => pc' = "bo_ret"

(* C11: the sizing loop of tex_layout_calculate_bo_size ends, and its body
   runs at most twice: the body starts at most once after a first run, it
   starts again only in a step that switched the tiling from X or Y to
   linear, and a run of the body that starts with linear tiling leaves the
   loop. *)
C11_LoopTwice ==
    /\ [](iters <= 2 /\ (pc = "bo_loop" => iters <= 1))
    /\ [][C11_Step]_vars

(* the body has run twice and the loop is left *)
C11_Witness == pc = "bo_ret" /\ iters = 2 /\ layout.tiling = "NONE"

(* the granularity of a tiling mode: 512 bytes by 8 rows for X, 128 by 32 for
   Y, 64 by 64 for linear S8, 64 by 2 for any other linear surface *)
Granule(tiling, format) ==
    CASE tiling = "X" -> <<512, 8>>
      [] tiling = "Y" -> <<128, 32>>
      [] tiling = "NONE" /\ format = "S8_UINT" -> <<64, 64>>
      [] OTHER -> <<64, 2>>

RoundUp(v, a) == ((v + a - 1) \div a) * a

(* 256 MiB / stride / 4 < height *)
OverBudget(stride, height) == ((256 * 1024 * 1024) \div stride) \div 4 < height

(* the stride in bytes and the number of rows of the plane, before rounding *)
PlaneStride == (layout.width \div layout.block_width) * layout.block_size
PlaneRows == layout.height \div layout.block_height

(* a run of the loop's body on a tiled surface whose tile-rounded size is over
   the budget *)
C12_Step ==
    LET g == Granule(layout.tiling, layout.format)
        w == RoundUp(layout.bo_stride, g[1])
        h == RoundUp(layout.bo_height, g[2])
    IN  (/\ pc = "bo_loop" /\ iters' # iters
         /\ layout.tiling \in {"X", "Y"}
         /\ OverBudget(w, h)) =>
            IF "NONE" \in layout.valid_tilings
            THEN layout'.tiling = "NONE" /\ pc' = "bo_loop"
            ELSE /\ layout'.tiling = layout.tiling
                 /\ layout'.bo_stride = w /\ layout'.bo_height = h
                 /\ pc' = "bo_ret"

(* C12: when the tile-rounded size of a tiled surface is over the mappable
   budget and linear is in valid_tilings, the final tiling is linear and the
   stride and height are rounded for linear; when linear is not in
   valid_tilings the tiling is unchanged, the tile-rounded stride and height
   are kept, and the computation fails only by the 2^31 size check. Hence a
   final tiled mode with linear legal has a height within the budget. *)
C12_ApertureFallback ==
    /\ [][C12_Step]_vars
    /\ [](Completed("bo_loop") =>
            /\ iters = 2 =>
                  /\ layout.tiling = "NONE"
                  /\ layout.bo_stride = RoundUp(PlaneStride, 64)
                  /\ layout.bo_height % Granule("NONE", layout.format)[2] = 0
                  /\ layout.bo_height >= PlaneRows
            /\ (layout.tiling \in {"X", "Y"} /\ "NONE" \in layout.valid_tilings) =>
                  ~OverBudget(layout.bo_stride, layout.bo_height)
            /\ pc = "fail" =>
                  (layout.bo_stride \div 64) * layout.bo_height > 33554432
            /\ pc \in {"hiz_size", "done"} =>
                  (layout.bo_stride \div 64) * layout.bo_height <= 33554432)

(* a tiled surface over the budget, linear not legal, sized with success *)
C12_Witness ==
    /\ pc = "done"
    /\ layout.tiling \in {"X", "Y"}
    /\ "NONE" \notin layout.valid_tilings
    /\ OverBudget(layout.bo_stride, layout.bo_height)

(* C13 as stated: with slice storage, offsets are written only for the levels
   0 .. last_level and, in each level, only at the indices
   0 .. array_size - 1; without slice storage no offset is written. *)
C13_SlicesInArray ==
    /\ has_slices =>
          \A c \in DOMAIN slices :
              /\ c[1] \in 0 .. templ.last_level
              /\ c[2] \in 0 .. (templ.array_size - 1)
    /\ ~has_slices => DOMAIN slices = {}

(* the number of offsets a packer writes for a level: the depth of the level
   for a 3D resource, the number of array layers otherwise *)
SlicesOfLevel(lv) ==
    IF templ.target = "3D"
    THEN (IF templ.depth0 \div (2 ^ lv) > 1 THEN templ.depth0 \div (2 ^ lv) ELSE 1)
    ELSE templ.array_size

(* C13, amended: with slice storage, the packers write offsets exactly for
   the levels 0 .. last_level; in each level the 2D packer writes the indices
   0 .. array_size - 1 and the 3D packer the indices 0 .. depth - 1, depth
   being max(1, depth0 >> level); nothing is written before the packer runs,
   and without slice storage nothing is written at all. *)
C13_SlicesInLevel ==
    /\ DOMAIN slices \subseteq
          {c \in (0 .. templ.last_level) \X (0 .. 15) : c[2] < SlicesOfLevel(c[1])}
    /\ (has_slices /\ Completed("pack")) =>
          \A lv \in 0 .. templ.last_level :
              \A i \in 0 .. (SlicesOfLevel(lv) - 1) : <<lv, i>> \in DOMAIN slices
    /\ ~Completed("pack") => DOMAIN slices = {}
    /\ ~has_slices => DOMAIN slices = {}

(* a 3D resource of one array layer whose level 0 got an offset at index 3 *)
C13_Witness ==
    /\ pc = "done"
    /\ templ.target = "3D"
    /\ templ.array_size = 1
    /\ templ.last_level = 2
    /\ <<0, 3>> \in DOMAIN slices
    /\ <<2, 1>> \notin DOMAIN slices

(* the stages of tex_layout_init, in the order of its calls *)
Stages == <<"hiz", "format", "tiling", "spacing", "levels", "alignments", "qpitch">>

StageNo(p) == CHOOSE i \in 1 .. Len(Stages) : Stages[i] = p

(* the layout fields each stage writes *)
StageFields(p) ==
    CASE p = "hiz" -> {"has_depth", "has_stencil", "hiz", "separate_stencil"}
      [] p = "format" -> {"format", "block_width", "block_height", "block_size",
                          "compressed"}
      [] p = "tiling" -> {"tiling", "valid_tilings"}
      [] p = "spacing" -> {"array_spacing_full", "interleaved"}
      [] p = "levels" -> {"levels"}
      [] p = "alignments" -> {"align_i", "align_j"}
      [] OTHER -> {"qpitch"}

(* the fields written after stage p: by the later stages, the packers and the
   sizing *)
LaterFields(p) ==
    DOMAIN ZeroLayout \ UNION {StageFields(Stages[i]) : i \in 1 .. StageNo(p)}

(* the layout with other content in the fields F *)
Poison(l, F) == [f \in DOMAIN l |-> IF f \in F THEN DirtyLayout[f] ELSE l[f]]

(* what stage p does with layout l: the fields it writes and its assertions *)
StageOutcome(p, l) ==
    LET out == CASE p = "hiz" -> <<tex_layout_init_hiz(l), TRUE>>
                 [] p = "format" -> <<tex_layout_init_format(l), TRUE>>
                 [] p = "tiling" ->
                      IF tiling_mask(l) = {} THEN <<l, FALSE>>
                      ELSE <<tex_layout_init_tiling(l), TRUE>>
                 [] p = "spacing" ->
                      <<tex_layout_init_spacing(l), spacing_assert_ok(l)>>
                 [] p = "levels" ->
                      <<tex_layout_init_levels(l), levels_assert_ok(l)>>
                 [] p = "alignments" ->
                      IF ~alignments_assert_bpp96(l) THEN <<l, FALSE>>
                      ELSE <<tex_layout_init_alignments(l),
                             alignments_assert_units(tex_layout_init_alignments(l))>>
                 [] OTHER -> <<tex_layout_init_qpitch(l), TRUE>>
    IN  <<[f \in StageFields(p) |-> out[1][f]], out[2]>>

InStage == \E i \in 1 .. Len(Stages) : Stages[i] = pc

(* a step of a stage goes to the next stage, or ends the computation by an
   assertion, and writes the fields of that stage only *)
C14_Step ==
    (InStage /\ pc' # pc) =>
        /\ pc' = "abort" \/ pc' = Order[Pos(pc) + 1]
        /\ \A f \in DOMAIN ZeroLayout \ StageFields(pc) : layout'[f] = layout[f]

(* level 1 holds a computed size *)
Level1Computed == layout.levels[1].w > 0

(* C14: the stages run in the order hiz, format, tiling, spacing, levels,
   alignments, qpitch; what a stage does is the same whatever the fields
   written by later stages hold, so no stage reads such a field; and the
   qpitch stage depends on the size of level 1 only when the level stage
   computed level 1, which it does exactly when last_level >= 1 or the extra
   level for full spacing was added. *)
C14_StageOrder ==
    /\ [][C14_Step]_vars
    /\ [](InStage =>
            StageOutcome(pc, Poison(layout, LaterFields(pc))) = StageOutcome(pc, layout))
    /\ [](pc = "qpitch" =>
            /\ Level1Computed <=>
                  \/ templ.last_level >= 1
                  \/ templ.array_size > 1 /\ layout.array_spacing_full
            /\ ~Level1Computed =>
                  tex_layout_init_qpitch(
                      [layout EXCEPT !.levels[1] = DirtyLayout.levels[1]]).qpitch
                  = tex_layout_init_qpitch(layout).qpitch)

(* the qpitch of an array with one level was computed from the extra level *)
C14_Witness ==
    /\ pc = "init_end"
    /\ templ.last_level = 0
    /\ templ.array_size > 1
    /\ layout.array_spacing_full
    /\ Level1Computed
    /\ layout.qpitch > layout.levels[0].h + layout.levels[1].h

(* the recorded offset of layer 0 of a level *)
LevelX(lv) == slices[<<lv, 0>>][1]
LevelY(lv) == slices[<<lv, 0>>][2]

(* a resource with two levels or more, packed by tex_layout_2d with slice
   storage *)
Packed2DLevels ==
    /\ Completed("pack")
    /\ ~UsesLayout3D
    /\ has_slices
    /\ templ.array_size >= 1
    /\ templ.last_level >= 1

(* C15 as stated: level 1 is to the right of level 0 (x is the width of level
   0 aligned to align_i, y is that of level 0), and every level from 2 on is
   below the one before it (same x, y larger by the height of the level
   before, aligned to align_j). *)
C15_Staircase ==
    Packed2DLevels =>
        /\ LevelX(1) = LevelX(0) + RoundUp(layout.levels[0].w, layout.align_i)
        /\ LevelY(1) = LevelY(0)
        /\ \A lv \in 2 .. templ.last_level :
              /\ LevelX(lv) = LevelX(lv - 1)
              /\ LevelY(lv) = LevelY(lv - 1)
                                + RoundUp(layout.levels[lv - 1].h, layout.align_j)

(* C15, amended: level 0 is at the origin; level 1 is below level 0 (x = 0,
   y is the height of level 0 aligned to align_j); level 2 is to the right of
   level 1 (x is the width of level 1 aligned to align_i, y is that of level
   1); every level from 3 on is below the one before it (same x, y larger by
   the height of the level before, aligned to align_j). *)
C15_MipBelow ==
    Packed2DLevels =>
        /\ LevelX(0) = 0 /\ LevelY(0) = 0
        /\ LevelX(1) = 0
        /\ LevelY(1) = RoundUp(layout.levels[0].h, layout.align_j)
        /\ templ.last_level >= 2 =>
              /\ LevelX(2) = RoundUp(layout.levels[1].w, layout.align_i)
              /\ LevelY(2) = LevelY(1)
        /\ \A lv \in 3 .. templ.last_level :
              /\ LevelX(lv) = LevelX(lv - 1)
              /\ LevelY(lv) = LevelY(lv - 1)
                                + RoundUp(layout.levels[lv - 1].h, layout.align_j)

(* four levels: the second below the first, the third to its right, the
   fourth below the third *)
C15_Witness ==
    /\ Packed2DLevels
    /\ pc = "done"
    /\ templ.last_level = 3
    /\ LevelX(1) = 0 /\ LevelY(1) > 0
    /\ LevelX(2) > 0 /\ LevelY(2) = LevelY(1)
    /\ LevelX(3) = LevelX(2) /\ LevelY(3) > LevelY(2)

(* a surface the sampler can read, sized as linear on GEN7.5 or later *)
LinearSampled ==
    /\ Completed("bo_loop")
    /\ gen >= ILO_GEN_7_5
    /\ "SAMPLER_VIEW" \in templ.bind
    /\ layout.tiling = "NONE"

(* the bytes of the allocation beyond the bytes of the plane:
   bo_stride * bo_height - PlaneStride * PlaneRows, in two terms that stay
   small *)
BytesBeyondPlane ==
    layout.bo_stride * (layout.bo_height - PlaneRows)
    + (layout.bo_stride - PlaneStride) * PlaneRows

(* C16: for a surface the sampler can read whose final tiling is linear, on
   GEN7.5 or later, the final bo_height is at least the plane's rows plus
   ceil(64 / stride) rows, rounded to the linear row granularity, so that the
   allocation holds at least 64 bytes beyond the plane. *)
C16_LinearPadding ==
    LinearSampled =>
        /\ layout.bo_height >=
              RoundUp(PlaneRows + (64 + PlaneStride - 1) \div PlaneStride,
                      Granule("NONE", layout.format)[2])
        /\ BytesBeyondPlane >= 64

(* the GEN6 case of a multisampled surface whose height is 1 modulo 4 *)
Gen6Erratum ==
    gen = ILO_GEN_6 /\ templ.nr_samples > 1 /\ templ.height0 % 4 = 1

(* C17: with more than one array layer and full spacing, qpitch is
   align(level0.h, align_j) + align(level1.h, align_j) + K * align_j, K being
   12 on GEN7 and later and 11 on GEN6, and on GEN6 with more than one sample
   and height0 % 4 = 1 it is larger by exactly align_j, whatever the format;
   with compact spacing qpitch is align(level0.h, align_j). *)
C17_Qpitch ==
    (Completed("qpitch") /\ templ.array_size > 1) =>
        IF layout.array_spacing_full
        THEN layout.qpitch =
                RoundUp(layout.levels[0].h, layout.align_j)
                + RoundUp(layout.levels[1].h, layout.align_j)
                + (IF gen >= ILO_GEN_7 THEN 12 ELSE 11) * layout.align_j
                + (IF Gen6Erratum THEN layout.align_j ELSE 0)
        ELSE layout.qpitch = RoundUp(layout.levels[0].h, layout.align_j)

(* the qpitch of a multisampled array of GEN6 with height 5 *)
C17_Witness ==
    /\ pc = "init_end"
    /\ templ.array_size > 1
    /\ layout.array_spacing_full
    /\ Gen6Erratum
    /\ layout.qpitch = RoundUp(layout.levels[0].h, layout.align_j)
                        + RoundUp(layout.levels[1].h, layout.align_j)
                        + 12 * layout.align_j

(* C18: after tex_layout_calculate_bo_size, bo_stride and bo_height are
   multiples of the granularity of the tiling the layout ends with (also
   after a fallback to linear): 512 x 8 for X, 128 x 32 for Y, 64 x 64 for
   linear S8, 64 x 2 for any other linear surface; and they are not smaller
   than the stride and the row count of the plane before rounding. *)
C18_FinalGranule ==
    Completed("bo_loop") =>
        /\ layout.bo_stride % Granule(layout.tiling, layout.format)[1] = 0
        /\ layout.bo_height % Granule(layout.tiling, layout.format)[2] = 0
        /\ layout.bo_stride >= PlaneStride
        /\ layout.bo_height >= PlaneRows

(* a surface that fell back from Y to linear, sized in the linear units *)
C18_Witness ==
    /\ pc = "done"
    /\ iters = 2
    /\ "Y" \in layout.valid_tilings
    /\ layout.tiling = "NONE"
    /\ layout.bo_stride % 64 = 0
    /\ layout.bo_height % 2 = 0

(* a sampler source or render target whose valid_tilings holds the three
   modes, after tex_layout_init_tiling and before any fallback of the sizing *)
HeuristicCase ==
    /\ Completed("tiling")
    /\ iters = 0
    /\ templ.bind \cap {"RENDER_TARGET", "SAMPLER_VIEW"} # {}
    /\ layout.valid_tilings = {"NONE", "X", "Y"}

(* the modes the heuristics leave to choose from *)
Candidates == tiling_heuristics(layout.valid_tilings)

(* C19 as stated: the heuristics drop Y only when width0 < 32 and
   height0 < 32, so a surface with width0 >= 32 or height0 >= 32 is tiled Y;
   X is dropped only when width0 < 64; the candidate set is never empty. *)
C19_DropYBoth ==
    HeuristicCase =>
        /\ "Y" \notin Candidates => (templ.width0 < 32 /\ templ.height0 < 32)
        /\ (templ.width0 >= 32 \/ templ.height0 >= 32) => layout.tiling = "Y"
        /\ "X" \notin Candidates => templ.width0 < 64
        /\ Candidates # {}

(* C19, amended: the heuristics drop Y exactly when width0 or height0 is
   below 16 or both are below 32, so a surface with width0 >= 16,
   height0 >= 16 and one of them >= 32 is tiled Y; X is dropped exactly when
   width0 < 64; linear always stays a candidate; the tiling is Y if Y was
   kept, else X if X was kept, else linear. *)
C19_DropYEither ==
    HeuristicCase =>
        /\ "Y" \notin Candidates <=>
              \/ templ.width0 < 16
              \/ templ.height0 < 16
              \/ templ.width0 < 32 /\ templ.height0 < 32
        /\ "X" \notin Candidates <=> templ.width0 < 64
        /\ "NONE" \in Candidates
        /\ layout.tiling = IF "Y" \in Candidates THEN "Y"
                           ELSE IF "X" \in Candidates THEN "X" ELSE "NONE"

(* a surface 64 wide and 8 high lost Y and is tiled X *)
C19_Witness ==
    /\ HeuristicCase
    /\ pc = "spacing"
    /\ templ.width0 = 64 /\ templ.height0 = 8
    /\ Candidates = {"NONE", "X"}
    /\ layout.tiling = "X"

(* a resource packed by tex_layout_2d whose samples are slices of their own *)
PlanarSamples ==
    /\ Completed("pack")
    /\ ~UsesLayout3D
    /\ templ.nr_samples > 1
    /\ ~layout.interleaved
    /\ templ.array_size >= 1

(* C20: for a resource packed by tex_layout_2d with S > 1 samples stored as
   separate slices and A >= 1 array layers, A = 1 included, the height of
   the plane has room for the A * S slices:
   height >= (A * S - 1) * align(level0.h, align_j) + level0.h. *)
C20_SampleSlices ==
    PlanarSamples =>
        layout.height >=
            (templ.array_size * templ.nr_samples - 1)
                * RoundUp(layout.levels[0].h, layout.align_j)
            + layout.levels[0].h

(* C21: the three assertions at the entry of tex_layout_calculate_bo_size
   hold for every layout that tex_layout_init and a packer with its padding
   pass produce, the block width and height being powers of two: the width
   of the plane is a multiple of block_width, its height a multiple of
   block_height (also after the two rows added for a cube and the rounding
   to an even row for a render target), and qpitch a multiple of
   block_height (also after the addition for GEN6); the computation never
   ends at these assertions. *)
C21_EntryAsserts ==
    /\ (pc = "bo_size" /\ IsPow2(layout.block_width) /\ IsPow2(layout.block_height)) =>
          /\ layout.width % layout.block_width = 0
          /\ layout.height % layout.block_height = 0
          /\ layout.qpitch % layout.block_height = 0
    /\ ~(pc = "abort" /\ failed = "bo_size")

(* a compressed cube the sampler reads, at the entry of the sizing *)
C21_Witness ==
    /\ pc = "bo_size"
    /\ templ.target = "CUBE"
    /\ "SAMPLER_VIEW" \in templ.bind
    /\ layout.compressed
    /\ layout.block_height = 4
    /\ layout.height % 4 = 0

(* a resource of one sample, not compressed, without depth or stencil *)
PlainColor ==
    /\ templ.nr_samples <= 1
    /\ ~layout.compressed
    /\ ~(layout.has_depth \/ layout.has_stencil)

(* C22: for a resource of one sample, not compressed and without depth or
   stencil, on any generation and with any bindings that pass the assertion
   on valid_tilings, the assertion of tex_layout_init_alignments that a
   format of 12 bytes per pixel does not get the vertical alignment 4 holds,
   because tex_layout_init_tiling never chooses Y for a render target of 12
   bytes per pixel on GEN7 or later; the assertion fails only for a
   multisampled resource of 12 bytes per pixel. *)
C22_Bpp96 ==
    /\ (pc = "abort" /\ failed = "bpp96") =>
          (templ.nr_samples > 1 /\ layout.block_size = 12)
    /\ (/\ Completed("tiling")
         /\ gen >= ILO_GEN_7
         /\ "RENDER_TARGET" \in templ.bind
         /\ layout.block_size = 12) => layout.tiling # "Y"
    /\ (Completed("alignments") /\ PlainColor /\ layout.block_size = 12) =>
          layout.align_j = 2

(* a render target of 12 bytes per pixel on GEN7 or later, tiled X, with the
   vertical alignment 2 *)
C22_Witness ==
    /\ pc = "qpitch"
    /\ PlainColor
    /\ gen >= ILO_GEN_7
    /\ "RENDER_TARGET" \in templ.bind
    /\ layout.block_size = 12
    /\ layout.tiling = "X"
    /\ layout.align_j = 2

====
